---- MODULE Spec2Model ----
(***************************************************************************)
(* The Django tracing middleware of opencensus-ext-django                  *)
(* (opencensus/ext/django/middleware.py): the four middleware hooks of     *)
(* OpencensusMiddleware and the database execute wrapper _trace_db_call,   *)
(* run against the Tracer, the execution context and the exclusion filter  *)
(* of the opencensus core package.                                         *)
(*                                                                         *)
(* Every hook is one action (the whole handler).  _trace_db_call wraps a   *)
(* call that may itself be a wrapped call, so it is two actions: the part  *)
(* before execute() and the part after it, with a per-context stack of     *)
(* invocations in progress.  A collaborator call that raises is an input   *)
(* of the action (fault): the place in the handler where the raise occurs. *)
(***************************************************************************)
EXTENDS Integers, Sequences, FiniteSets, TLC

VARIABLES
    env,       \* the run considered: the execution contexts that serve requests and
               \* how many requests, database calls and raising collaborator
               \* calls it has (constant over a behaviour)
    store,     \* execution context: per slot, the attrs dict and the ambient tracer
    spans,     \* every span ever started, by span id
    tracers,   \* every Tracer ever constructed, by tracer id
    reqs,      \* every request received so far, by request id
    cur,       \* per execution context: the request being served
    calls,     \* per execution context: _trace_db_call invocations in progress
    ret,       \* per execution context: outcome travelling up the wrapper chain
    ndb,       \* number of _trace_db_call invocations started so far
    nfaults,   \* number of collaborator calls that raised so far
    last       \* the operation that made the last step, and what it observed

vars == <<env, store, spans, tracers, reqs, cur, calls, ret, ndb, nfaults, last>>

(***************************************************************************)
(* Bounds of the model.                                                    *)
(***************************************************************************)
MaxReq == 2
MaxDb == 1
MaxFaults == 1

None == 0

Ctx == {"A", "B"}

(***************************************************************************)
(* Inputs: request paths (sequences of segments), hosts, users, views.     *)
(***************************************************************************)
Paths == {<<"healthz">>, <<"orders", "42">>}

Hosts == {"example.com"}

\* A host that matches a hostname-exclusion pattern of the settings.
ExcludedHosts == {"localhost"}

NoUser == [present |-> FALSE, pk |-> None, name |-> "None"]

Users == {[present |-> TRUE, pk |-> 7, name |-> "bob"]}

\* Users with no primary key (pk is None) or no user name (get_username() is None).
PartialUsers == {[present |-> TRUE, pk |-> None, name |-> "alice"],
                 [present |-> TRUE, pk |-> 7, name |-> "None"],
                 [present |-> TRUE, pk |-> None, name |-> "None"]}

Views == {[module |-> "orders.views", name |-> "OrdersView"]}

\* The absent value of a field that holds a record.
NoValue == [none |-> TRUE]

Responses == {[status_code |-> 200], [status_code |-> 500]}

\* (sql, params, many, context) of a database call; context carries the connection.
DbArgs == {[sql |-> "SELECT 1", params |-> "()", many |-> FALSE,
            vendor |-> "sqlite", alias |-> "default"]}

\* What the wrapped execute() can do: return a result or raise.
Outcomes == {[kind |-> "ok", val |-> "rows"], [kind |-> "raise", val |-> "DatabaseError"]}

NoOutcome == [kind |-> "none", val |-> "none"]

TracerError == [kind |-> "raise", val |-> "TracerError"]

\* settings.OPENCENSUS['TRACE'] as read by __init__
settings == [EXCLUDELIST_PATHS |-> {<<"healthz">>},
             EXCLUDELIST_HOSTNAMES |-> {"localhost"}]

REQUEST_THREAD_LOCAL_KEY == "django_request"

SPAN_THREAD_LOCAL_KEY == "django_span"

HTTP_ATTRIBUTES == {"http.host", "http.method", "http.path", "http.route", "http.url"}

DB_ATTRIBUTES == {"component", "db.instance", "db.statement", "db.type"}

ERROR_ATTRIBUTES == {"error.name", "error.message", "stacktrace"}

HTTP_STATUS_CODE == "http.status_code"

(***************************************************************************)
(* opencensus.trace.utils                                                  *)
(***************************************************************************)
IsPrefix(p, s) == Len(p) <= Len(s) /\ SubSeq(s, 1, Len(p)) = p

\* True when the path matches one of the excluded path patterns.
disable_tracing_url(path, excludelist_paths) ==
    \E p \in excludelist_paths : IsPrefix(p, path)

\* The identifier of a view function: its module and its name.
get_func_name(view_func) == <<view_func.module, view_func.name>>

(***************************************************************************)
(* opencensus.trace.execution_context: one slot per execution context.     *)
(* A world w is the tracing state <<store, spans, tracers>> as a record.   *)
(***************************************************************************)
_process_global(c) == "A"

_thread_local(c) == c

EmptySlot == [attrs |-> [k \in {} |-> None], tracer |-> None]

get_opencensus_attr(w, c, key) ==
    LET d == w.store[_thread_local(c)].attrs
    IN  IF key \in DOMAIN d THEN d[key] ELSE None

set_opencensus_attr(w, c, key, value) ==
    LET d == w.store[_thread_local(c)].attrs
    IN  [w EXCEPT !.store[_thread_local(c)].attrs =
            [k \in DOMAIN d \cup {key} |-> IF k = key THEN value ELSE d[k]]]

get_opencensus_tracer(w, c) == w.store[_thread_local(c)].tracer

set_opencensus_tracer(w, c, t) == [w EXCEPT !.store[_thread_local(c)].tracer = t]

(***************************************************************************)
(* opencensus.trace.tracer.Tracer and opencensus.trace.span.Span           *)
(***************************************************************************)
\* Tracer(...): a new Tracer, which installs itself as the ambient tracer.
Tracer(w, c, r) ==
    LET t == Len(w.tracers) + 1
        w1 == [w EXCEPT !.tracers =
                  Append(@, [ctx |-> c, req |-> r, stack |-> <<>>, finishes |-> 0])]
    IN  set_opencensus_tracer(w1, c, t)

\* The most recently started span of the tracer that has not ended, if any.
current_span(w, t) ==
    LET st == w.tracers[t].stack
    IN  IF st = <<>> THEN None ELSE st[Len(st)]

\* The id start_span gives the span it starts.
NewSpan(w) == Len(w.spans) + 1

start_span(w, t, c, r) ==
    [w EXCEPT !.spans = Append(@, [name |-> <<"span">>, kind |-> "UNSPECIFIED",
                                   parent |-> current_span(w, t), tracer |-> t,
                                   ctx |-> c, req |-> r, closes |-> 0,
                                   status |-> "unset", attrs |-> {},
                                   late |-> FALSE]),
              !.tracers[t].stack = Append(@, NewSpan(w))]

\* Ends the current span of the tracer; nothing to end when none is open.
end_span(w, t) ==
    LET s == current_span(w, t)
    IN  IF s = None THEN w
        ELSE [w EXCEPT !.spans[s].closes = @ + 1,
                       !.tracers[t].stack = SubSeq(@, 1, Len(@) - 1)]

\* Tracer finalization: the flush of the finished spans to the exporter.
finish(w, t) == [w EXCEPT !.tracers[t].finishes = @ + 1]

set_status(w, s, code) == [w EXCEPT !.spans[s].status = code]

add_attribute(w, s, keys) ==
    [w EXCEPT !.spans[s].attrs = @ \cup keys,
              !.spans[s].late = @ \/ (w.spans[s].closes > 0 /\ keys # {})]

add_attribute_to_current_span(w, t, keys) ==
    IF current_span(w, t) = None THEN w
    ELSE add_attribute(w, current_span(w, t), keys)

(***************************************************************************)
(* middleware.py: helpers                                                  *)
(***************************************************************************)
_get_django_request(w, c) == get_opencensus_attr(w, c, REQUEST_THREAD_LOCAL_KEY)

_get_django_span(w, c) == get_opencensus_attr(w, c, SPAN_THREAD_LOCAL_KEY)

_get_current_tracer(w, c) == get_opencensus_tracer(w, c)

\* User attributes added only for a user with both a primary key and a name.
_set_django_attributes_keys_both(user) ==
    IF user.present /\ user.pk # None /\ user.name # "None"
    THEN {"django.user.id", "django.user.name"}
    ELSE {}

\* The attribute keys _set_django_attributes adds for the request's user.
_set_django_attributes_keys(user) ==
    IF ~user.present THEN {}
    ELSE (IF user.pk # None THEN {"django.user.id"} ELSE {})
         \cup (IF user.name # "None" THEN {"django.user.name"} ELSE {})

_set_django_attributes(w, span, user) ==
    add_attribute(w, span, _set_django_attributes_keys(user))

\* OpencensusMiddleware.__init__: the exclusion rules read from the settings.
excludelist_paths == settings.EXCLUDELIST_PATHS

excludelist_hostnames == settings.EXCLUDELIST_HOSTNAMES

Excluded(r) == disable_tracing_url(reqs[r].path, excludelist_paths)

World == [store |-> store, spans |-> spans, tracers |-> tracers]

\* The result of a handler body: the world it leaves, whether an exception
\* leaves it, and what it read from the context store.
Body(w, raised, rreq, rspan, rtracer) ==
    [w |-> w, raised |-> raised, caught |-> FALSE, result |-> NoValue,
     rreq |-> rreq, rspan |-> rspan, rtracer |-> rtracer]

\* No except clause: the exception leaves the hook.
except_nothing(b) == b

\* "except Exception: log.error(...)": the exception ends here.
except_Exception(b) == [b EXCEPT !.raised = FALSE, !.caught = b.raised]

(***************************************************************************)
(* OpencensusMiddleware.process_request                                    *)
(***************************************************************************)
FaultsRequest ==
    {"none", "from_headers", "Tracer", "start_span", "add_attribute", "set_opencensus_attr"}

\* Lines 198-236: the body of the try block.
process_request_try(w0, c, r, fault) ==
    LET rq == _get_django_request(w0, c)
    IN  IF fault \in {"from_headers", "Tracer"}
        THEN Body(w0, TRUE, rq, None, None)
        ELSE
        LET w1 == Tracer(w0, c, r)
            tracer == Len(w1.tracers)
        IN  IF fault = "start_span" THEN Body(w1, TRUE, rq, None, None)
            ELSE
            LET w2 == start_span(w1, tracer, c, r)
                span == NewSpan(w1)
                w3 == [w2 EXCEPT !.spans[span].kind = "SERVER"]
            IN  IF fault = "add_attribute" THEN Body(w3, TRUE, rq, None, None)
                ELSE
                LET w4 == add_attribute_to_current_span(w3, tracer, HTTP_ATTRIBUTES)
                IN  IF fault = "set_opencensus_attr" THEN Body(w4, TRUE, rq, None, None)
                    ELSE Body(set_opencensus_attr(w4, c, SPAN_THREAD_LOCAL_KEY, span),
                              FALSE, rq, None, None)

\* Lines 185-239: the whole hook, for request r received in context c.
process_request(w, c, r, path, fault) ==
    IF disable_tracing_url(path, excludelist_paths)
    THEN Body(w, FALSE, None, None, None)
    ELSE
    LET w1 == set_opencensus_attr(w, c, REQUEST_THREAD_LOCAL_KEY, r)
        w2 == set_opencensus_attr(w1, c, "excludelist_hostnames", excludelist_hostnames)
    IN  except_Exception(process_request_try(w2, c, r, fault))

NoLast ==
    [op |-> "init", ctx |-> "A", req |-> None, excluded |-> FALSE, clean |-> TRUE,
     faulted |-> FALSE, raised |-> "none", caught |-> FALSE, result |-> NoValue, given |-> NoValue,
     rreq |-> None, rspan |-> None, rtracer |-> None,
     root |-> None, handler |-> <<>>, span |-> None, closed |-> None, entry |-> None,
     traced |-> FALSE, execs |-> 0, args |-> NoValue, passed |-> NoValue]

\* phase: the hook that ran last for the request ("view" also once the view
\* function runs without process_view having been called).
\* handler: the identifier process_view was given, <<>> before it runs.
Idle == [req |-> None, root |-> None, clean |-> TRUE, phase |-> "idle", handler |-> <<>>]

\* The places where a collaborator call of a handler may raise.
Faults(points) == IF nfaults < env.faults THEN points ELSE {"none"}

Count(fault) == IF fault = "none" THEN 0 ELSE 1

\* The root span a process_request opened: the span of kind SERVER it started.
RootOpened(w0, w1) ==
    IF Len(w1.spans) > Len(w0.spans) THEN Len(w1.spans) ELSE None

ProcessRequest(c) ==
    /\ cur[c].req = None
    /\ Len(reqs) < env.reqs
    /\ \E path \in Paths, host \in env.hosts, user \in env.users,
          fault \in Faults(FaultsRequest) :
         LET r == Len(reqs) + 1
             ex == disable_tracing_url(path, excludelist_paths)
             b == process_request(World, c, r, path, fault)
             injected == ~ex /\ fault # "none"
         IN  /\ ex => fault = "none"
             /\ reqs' = Append(reqs, [ctx |-> c, path |-> path, host |-> host, user |-> user])
             /\ store' = b.w.store
             /\ spans' = b.w.spans
             /\ tracers' = b.w.tracers
             /\ cur' = [cur EXCEPT ![c] =
                          [req |-> r, root |-> RootOpened(World, b.w),
                           clean |-> ~injected, phase |-> "request",
                           handler |-> <<>>]]
             /\ last' = [NoLast EXCEPT !.op = "process_request", !.ctx = c, !.req = r,
                                       !.excluded = ex, !.clean = ~injected,
                                       !.faulted = injected,
                                       !.raised = IF b.raised THEN "TracerError" ELSE "none",
                                       !.caught = b.caught,
                                       !.rreq = b.rreq, !.rspan = b.rspan,
                                       !.rtracer = b.rtracer,
                                       !.root = RootOpened(World, b.w)]
             /\ nfaults' = nfaults + Count(fault)
    /\ UNCHANGED <<env, calls, ret, ndb>>

(***************************************************************************)
(* OpencensusMiddleware.process_view                                       *)
(***************************************************************************)
FaultsView == {"none", "current_span", "get_func_name"}

\* process_view that looks the span up and leaves its name as it is.
process_view_try_no_rename(w, c, view_func, fault) ==
    LET tracer == _get_current_tracer(w, c)
    IN  IF tracer = None \/ fault # "none" \/ current_span(w, tracer) = None
        THEN Body(w, TRUE, None, None, tracer)
        ELSE Body(w, FALSE, None, None, tracer)

\* Lines 251-255: the body of the try block.
process_view_try(w, c, view_func, fault) ==
    LET tracer == _get_current_tracer(w, c)
    IN  IF tracer = None \/ fault = "current_span"
        THEN Body(w, TRUE, None, None, tracer)
        ELSE
        LET span == current_span(w, tracer)
        IN  IF fault = "get_func_name" \/ span = None
            THEN Body(w, TRUE, None, None, tracer)
            ELSE Body([w EXCEPT !.spans[span].name = get_func_name(view_func)],
                      FALSE, None, None, tracer)

\* process_view without the exclusion check of lines 247-248.
process_view_unguarded(w, c, path, view_func, fault) ==
    except_Exception(process_view_try(w, c, view_func, fault))

\* Lines 246-257: the whole hook.
process_view(w, c, path, view_func, fault) ==
    IF disable_tracing_url(path, excludelist_paths)
    THEN Body(w, FALSE, None, None, None)
    ELSE except_Exception(process_view_try(w, c, view_func, fault))

ProcessView(c) ==
    /\ cur[c].phase = "request"
    /\ calls[c] = <<>>
    /\ \E view_func \in Views, fault \in Faults(FaultsView) :
         LET r == cur[c].req
             b == process_view(World, c, reqs[r].path, view_func, fault)
             injected == ~Excluded(r) /\ fault # "none"
         IN  /\ Excluded(r) => fault = "none"
             /\ store' = b.w.store
             /\ spans' = b.w.spans
             /\ tracers' = b.w.tracers
             /\ cur' = [cur EXCEPT ![c].phase = "view",
                                   ![c].handler = get_func_name(view_func),
                                   ![c].clean = @ /\ ~injected]
             /\ last' = [NoLast EXCEPT !.op = "process_view", !.ctx = c, !.req = r,
                                       !.excluded = Excluded(r),
                                       !.clean = cur[c].clean /\ ~injected,
                                       !.faulted = injected,
                                       !.raised = IF b.raised THEN "TracerError" ELSE "none",
                                       !.caught = b.caught,
                                       !.handler = get_func_name(view_func),
                                       !.rtracer = b.rtracer,
                                       !.root = cur[c].root]
             /\ nfaults' = nfaults + Count(fault)
    /\ UNCHANGED <<env, reqs, calls, ret, ndb>>

(***************************************************************************)
(* OpencensusMiddleware.process_exception                                  *)
(***************************************************************************)
FaultsException == {"none", "add_attribute"}

\* process_exception that annotates the tracer's current span, not the stored one.
process_exception_try_current_span(w, c, user, fault) ==
    LET tracer == _get_current_tracer(w, c)
        span == IF tracer = None THEN None ELSE current_span(w, tracer)
    IN  IF span = None \/ fault = "add_attribute"
        THEN Body(w, TRUE, None, span, None)
        ELSE Body(_set_django_attributes(add_attribute(w, span, ERROR_ATTRIBUTES), span, user),
                  FALSE, None, span, None)

\* Lines 286-302: the body of the try block.
process_exception_try(w, c, user, fault) ==
    LET span == _get_django_span(w, c)
    IN  IF span = None \/ fault = "add_attribute"
        THEN Body(w, TRUE, None, span, None)
        ELSE Body(_set_django_attributes(add_attribute(w, span, ERROR_ATTRIBUTES), span, user),
                  FALSE, None, span, None)

\* Lines 282-304: the whole hook.
process_exception(w, c, path, user, fault) ==
    IF disable_tracing_url(path, excludelist_paths)
    THEN Body(w, FALSE, None, None, None)
    ELSE except_Exception(process_exception_try(w, c, user, fault))

ProcessException(c) ==
    /\ cur[c].phase \in {"request", "view"}
    /\ calls[c] = <<>>
    /\ \E fault \in Faults(FaultsException) :
         LET r == cur[c].req
             b == process_exception(World, c, reqs[r].path, reqs[r].user, fault)
             injected == ~Excluded(r) /\ fault # "none"
         IN  /\ Excluded(r) => fault = "none"
             /\ store' = b.w.store
             /\ spans' = b.w.spans
             /\ tracers' = b.w.tracers
             /\ cur' = [cur EXCEPT ![c].phase = "exception",
                                   ![c].clean = @ /\ ~injected]
             /\ last' = [NoLast EXCEPT !.op = "process_exception", !.ctx = c, !.req = r,
                                       !.excluded = Excluded(r),
                                       !.clean = cur[c].clean /\ ~injected,
                                       !.faulted = injected,
                                       !.raised = IF b.raised THEN "TracerError" ELSE "none",
                                       !.caught = b.caught, !.result = b.result,
                                       !.rspan = b.rspan,
                                       !.root = cur[c].root,
                                       !.handler = cur[c].handler]
             /\ nfaults' = nfaults + Count(fault)
    /\ UNCHANGED <<env, reqs, calls, ret, ndb>>

(***************************************************************************)
(* OpencensusMiddleware.process_response                                   *)
(***************************************************************************)
FaultsResponse == {"none", "add_attribute", "end_span", "finish"}

\* process_response that finishes the tracer without ending the span.
process_response_try_no_end_span(w, c, user, fault) ==
    LET span == _get_django_span(w, c)
        tracer == _get_current_tracer(w, c)
    IN  IF span = None \/ tracer = None \/ fault # "none"
        THEN Body(w, TRUE, None, span, tracer)
        ELSE Body(finish(_set_django_attributes(add_attribute(w, span, {HTTP_STATUS_CODE}),
                                                span, user), tracer),
                  FALSE, None, span, tracer)

\* process_response that ends the span and leaves the tracer unfinished.
process_response_try_no_finish(w, c, user, fault) ==
    LET span == _get_django_span(w, c)
        tracer == _get_current_tracer(w, c)
    IN  IF span = None \/ tracer = None \/ fault # "none"
        THEN Body(w, TRUE, None, span, tracer)
        ELSE Body(end_span(_set_django_attributes(add_attribute(w, span, {HTTP_STATUS_CODE}),
                                                  span, user), tracer),
                  FALSE, None, span, tracer)

\* Lines 265-274: the body of the try block.
process_response_try(w, c, user, fault) ==
    LET span == _get_django_span(w, c)
    IN  IF span = None \/ fault = "add_attribute"
        THEN Body(w, TRUE, None, span, None)
        ELSE
        LET w1 == add_attribute(w, span, {HTTP_STATUS_CODE})
            w2 == _set_django_attributes(w1, span, user)
            tracer == _get_current_tracer(w2, c)
        IN  IF tracer = None \/ fault = "end_span"
            THEN Body(w2, TRUE, None, span, tracer)
            ELSE
            LET w3 == end_span(w2, tracer)
            IN  IF fault = "finish" THEN Body(w3, TRUE, None, span, tracer)
                ELSE Body(finish(w3, tracer), FALSE, None, span, tracer)

\* No return in the finally clause: the hook returns nothing.
finally_pass(b, response) == b

\* "finally: return response": the return discards an exception in flight.
finally_return(b, response) ==
    [b EXCEPT !.raised = FALSE, !.caught = @ \/ b.raised, !.result = response]

\* process_response without the exclusion check of lines 261-262.
process_response_unguarded(w, c, path, user, response, fault) ==
    finally_return(except_Exception(process_response_try(w, c, user, fault)), response)

\* Lines 260-278: the whole hook.
process_response(w, c, path, user, response, fault) ==
    IF disable_tracing_url(path, excludelist_paths)
    THEN [Body(w, FALSE, None, None, None) EXCEPT !.result = response]
    ELSE finally_return(except_Exception(process_response_try(w, c, user, fault)), response)

ProcessResponse(c) ==
    /\ cur[c].req # None
    /\ calls[c] = <<>>
    /\ \E response \in Responses, fault \in Faults(FaultsResponse) :
         LET r == cur[c].req
             b == process_response(World, c, reqs[r].path, reqs[r].user, response, fault)
             injected == ~Excluded(r) /\ fault # "none"
         IN  /\ Excluded(r) => fault = "none"
             /\ store' = b.w.store
             /\ spans' = b.w.spans
             /\ tracers' = b.w.tracers
             /\ cur' = [cur EXCEPT ![c] = Idle]
             /\ last' = [NoLast EXCEPT !.op = "process_response", !.ctx = c, !.req = r,
                                       !.excluded = Excluded(r),
                                       !.clean = cur[c].clean /\ ~injected,
                                       !.faulted = injected,
                                       !.raised = IF b.raised THEN "TracerError" ELSE "none",
                                       !.caught = b.caught,
                                       !.given = response, !.result = b.result,
                                       !.rspan = b.rspan, !.rtracer = b.rtracer,
                                       !.root = cur[c].root,
                                       !.handler = cur[c].handler]
             /\ nfaults' = nfaults + Count(fault)
    /\ UNCHANGED <<env, reqs, calls, ret, ndb>>

(***************************************************************************)
(* _trace_db_call: the wrapper around a database execute().                *)
(***************************************************************************)
FaultsDbEnter == {"none", "start_span", "add_attribute"}

FaultsDbExit == {"none", "end_span"}

\* An invocation that has called execute(passed) and waits for its outcome.
\* entry: the tracer's current span when the invocation began (recorded by DbEnter).
Frame(tracer, span, args, passed) ==
    [tracer |-> tracer, span |-> span, args |-> args, passed |-> passed, execs |-> 1,
     entry |-> None]

\* _trace_db_call without the "if not tracer" of lines 117-118: start_span is
\* called on the missing tracer and raises.
_trace_db_call_enter_unguarded(w, c, r, args, fault) ==
    LET tracer == _get_current_tracer(w, c)
    IN  IF tracer = None \/ fault # "none"
        THEN [w |-> w, raised |-> TRUE, frame |-> Frame(tracer, None, args, NoValue)]
        ELSE [w |-> add_attribute_to_current_span(
                        [start_span(w, tracer, c, r) EXCEPT
                            !.spans[NewSpan(w)].name = <<args.vendor, "query">>,
                            !.spans[NewSpan(w)].kind = "CLIENT"], tracer, DB_ATTRIBUTES),
              raised |-> FALSE, frame |-> Frame(tracer, NewSpan(w), args, args)]

\* Lines 116-130: up to the call of execute.  raised: a tracer call raised
\* and the wrapper is left before execute is called.
_trace_db_call_enter(w, c, r, args, fault) ==
    LET tracer == _get_current_tracer(w, c)
    IN  IF tracer = None
        THEN [w |-> w, raised |-> FALSE, frame |-> Frame(None, None, args, args)]
        ELSE IF fault = "start_span"
        THEN [w |-> w, raised |-> TRUE, frame |-> Frame(tracer, None, args, NoValue)]
        ELSE
        LET w1 == start_span(w, tracer, c, r)
            span == NewSpan(w)
            w2 == [w1 EXCEPT !.spans[span].name = <<args.vendor, "query">>,
                             !.spans[span].kind = "CLIENT"]
        IN  IF fault = "add_attribute"
            THEN [w |-> w2, raised |-> TRUE, frame |-> Frame(tracer, span, args, NoValue)]
            ELSE [w |-> add_attribute_to_current_span(w2, tracer, DB_ATTRIBUTES),
                  raised |-> FALSE, frame |-> Frame(tracer, span, args, args)]

\* _trace_db_call that ends the span after a normal return only (no finally).
_trace_db_call_exit_no_finally(w, frame, o, fault) ==
    IF frame.tracer = None
    THEN [w |-> w, out |-> o, closed |-> None]
    ELSE IF o.kind = "raise"
    THEN [w |-> set_status(w, frame.span, "UNKNOWN"), out |-> o, closed |-> None]
    ELSE IF fault = "end_span"
    THEN [w |-> w, out |-> TracerError, closed |-> None]
    ELSE [w |-> end_span(w, frame.tracer), out |-> o,
          closed |-> current_span(w, frame.tracer)]

\* _trace_db_call that ends the span when execute raised only.
_trace_db_call_exit_no_end_on_return(w, frame, o, fault) ==
    IF frame.tracer = None \/ o.kind # "raise"
    THEN [w |-> w, out |-> o, closed |-> None]
    ELSE IF fault = "end_span"
    THEN [w |-> set_status(w, frame.span, "UNKNOWN"), out |-> TracerError, closed |-> None]
    ELSE [w |-> end_span(set_status(w, frame.span, "UNKNOWN"), frame.tracer), out |-> o,
          closed |-> current_span(w, frame.tracer)]

\* Lines 118 and 132-143: from the outcome o of execute to the wrapper's own
\* outcome.  closed: the span the wrapper's end_span ended.
_trace_db_call_exit(w, frame, o, fault) ==
    IF frame.tracer = None
    THEN [w |-> w, out |-> o, closed |-> None]
    ELSE
    LET w1 == IF o.kind = "raise" THEN set_status(w, frame.span, "UNKNOWN") ELSE w
    IN  IF fault = "end_span"
        THEN [w |-> w1, out |-> TracerError, closed |-> None]
        ELSE [w |-> end_span(w1, frame.tracer), out |-> o,
              closed |-> current_span(w1, frame.tracer)]

DbEnter(c) ==
    /\ cur[c].phase \in {"request", "view"}
    /\ ret[c] = NoOutcome
    /\ ndb < env.dbs
    /\ \E args \in (IF calls[c] = <<>> THEN DbArgs ELSE {calls[c][Len(calls[c])].passed}),
          fault \in Faults(FaultsDbEnter) :
         LET r == cur[c].req
             b == _trace_db_call_enter(World, c, r, args, fault)
             traced == b.frame.tracer # None
             entry == IF traced THEN current_span(World, b.frame.tracer) ELSE None
         IN  /\ ~traced => fault = "none"
             /\ store' = b.w.store
             /\ spans' = b.w.spans
             /\ tracers' = b.w.tracers
             /\ ndb' = ndb + 1
             /\ nfaults' = nfaults + Count(fault)
             /\ cur' = [cur EXCEPT ![c].clean = @ /\ fault = "none", ![c].phase = "view"]
             /\ IF b.raised
                THEN /\ calls' = calls
                     /\ ret' = [ret EXCEPT ![c] = IF calls[c] = <<>> THEN NoOutcome
                                                  ELSE TracerError]
                     /\ last' = [NoLast EXCEPT !.op = "_trace_db_call", !.ctx = c, !.req = r,
                                               !.excluded = Excluded(r), !.clean = FALSE,
                                               !.faulted = TRUE,
                                               !.raised = TracerError.val,
                                               !.result = TracerError, !.given = NoOutcome,
                                               !.rtracer = b.frame.tracer,
                                               !.span = b.frame.span, !.traced = traced,
                                               !.entry = entry,
                                               !.execs = 0, !.args = args]
                ELSE /\ calls' = [calls EXCEPT ![c] = Append(@, [b.frame EXCEPT !.entry = entry])]
                     /\ ret' = ret
                     /\ last' = [NoLast EXCEPT !.op = "db_enter", !.ctx = c, !.req = r,
                                               !.excluded = Excluded(r),
                                               !.clean = cur[c].clean,
                                               !.rtracer = b.frame.tracer,
                                               !.span = b.frame.span, !.traced = traced,
                                               !.entry = entry,
                                               !.execs = b.frame.execs, !.args = args,
                                               !.passed = b.frame.passed]
    /\ UNCHANGED <<env, reqs>>

DbExit(c) ==
    /\ calls[c] # <<>>
    /\ \E o \in (IF ret[c] = NoOutcome THEN Outcomes ELSE {ret[c]}),
          fault \in Faults(FaultsDbExit) :
         LET r == cur[c].req
             frame == calls[c][Len(calls[c])]
             b == _trace_db_call_exit(World, frame, o, fault)
             traced == frame.tracer # None
         IN  /\ ~traced => fault = "none"
             /\ store' = b.w.store
             /\ spans' = b.w.spans
             /\ tracers' = b.w.tracers
             /\ nfaults' = nfaults + Count(fault)
             /\ cur' = [cur EXCEPT ![c].clean = @ /\ fault = "none"]
             /\ calls' = [calls EXCEPT ![c] = SubSeq(@, 1, Len(@) - 1)]
             /\ ret' = [ret EXCEPT ![c] = IF Len(calls[c]) = 1 THEN NoOutcome ELSE b.out]
             /\ last' = [NoLast EXCEPT !.op = "_trace_db_call", !.ctx = c, !.req = r,
                                       !.excluded = Excluded(r),
                                       !.clean = cur[c].clean /\ fault = "none",
                                       !.faulted = fault # "none",
                                       !.raised = IF b.out.kind = "raise" THEN b.out.val
                                                  ELSE "none",
                                       !.result = b.out, !.given = o,
                                       !.rtracer = frame.tracer,
                                       !.span = frame.span, !.closed = b.closed,
                                       !.entry = frame.entry,
                                       !.traced = traced, !.execs = frame.execs,
                                       !.args = frame.args, !.passed = frame.passed]
    /\ UNCHANGED <<env, reqs, ndb>>

(***************************************************************************)
(* request.path is a plain attribute of the request: a middleware or a     *)
(* view can assign it between two hooks of the same request.               *)
(***************************************************************************)
SetPath(c) ==
    /\ cur[c].req # None
    /\ calls[c] = <<>>
    /\ \E path \in Paths \ {reqs[cur[c].req].path} :
         reqs' = [reqs EXCEPT ![cur[c].req].path = path]
    /\ last' = [NoLast EXCEPT !.op = "set_path", !.ctx = c, !.req = cur[c].req,
                              !.excluded = Excluded(cur[c].req),
                              !.clean = cur[c].clean, !.root = cur[c].root]
    /\ UNCHANGED <<env, store, spans, tracers, cur, calls, ret, ndb, nfaults>>

InitState ==
    /\ store = [s \in Ctx |-> EmptySlot]
    /\ spans = <<>>
    /\ tracers = <<>>
    /\ reqs = <<>>
    /\ cur = [c \in Ctx |-> Idle]
    /\ calls = [c \in Ctx |-> <<>>]
    /\ ret = [c \in Ctx |-> NoOutcome]
    /\ ndb = 0
    /\ nfaults = 0
    /\ last = NoLast

Env(ctxs, nreqs, ndbs, nfs) ==
    [ctxs |-> ctxs, reqs |-> nreqs, dbs |-> ndbs, faults |-> nfs,
     hosts |-> Hosts, users |-> Users]

\* One execution context serving requests one after another; collaborator
\* calls may raise.
Init == env = Env({"A"}, MaxReq, MaxDb, MaxFaults) /\ InitState

\* One execution context, fewer requests, more (and nested) database calls.
InitDb == env = Env({"A"}, MaxReq - 1, MaxDb + 1, MaxFaults) /\ InitState

\* Two execution contexts serving requests concurrently.
InitConc == env = Env(Ctx, MaxReq, MaxDb, MaxFaults - 1) /\ InitState

Next ==
    \E c \in env.ctxs :
        \/ ProcessRequest(c)
        \/ ProcessView(c)
        \/ ProcessException(c)
        \/ ProcessResponse(c)
        \/ DbEnter(c)
        \/ DbExit(c)

Spec == Init /\ [][Next]_vars

\* The four middleware hooks alone.
NextHooks ==
    \E c \in env.ctxs :
        \/ ProcessRequest(c)
        \/ ProcessView(c)
        \/ ProcessException(c)
        \/ ProcessResponse(c)

SpecDb == InitDb /\ [][Next]_vars

SpecConc == InitConc /\ [][NextHooks]_vars

\* One execution context; the path of a request may change between its hooks.
InitPath == env = Env({"A"}, MaxReq, MaxDb, MaxFaults - 1) /\ InitState

NextPath ==
    \E c \in env.ctxs :
        \/ ProcessRequest(c)
        \/ ProcessView(c)
        \/ ProcessException(c)
        \/ ProcessResponse(c)
        \/ SetPath(c)

SpecPath == InitPath /\ [][NextPath]_vars

\* One execution context; requests from every host and with every kind of
\* user (none, complete, without primary key, without user name).
InitInputs ==
    /\ env = [Env({"A"}, MaxReq - 1, MaxDb, MaxFaults - 1) EXCEPT
                 !.hosts = Hosts \cup ExcludedHosts,
                 !.users = Users \cup PartialUsers \cup {NoUser}]
    /\ InitState

SpecInputs == InitInputs /\ [][NextHooks]_vars

(***************************************************************************)
(* Properties                                                              *)
(***************************************************************************)
HookOps == {"process_request", "process_view", "process_exception", "process_response"}

\* db_enter: the wrapper has called execute; _trace_db_call: it has returned
\* or raised.
DbOps == {"db_enter", "_trace_db_call"}

SpanIds == 1..Len(spans)

\* The root spans of request r: the SERVER spans started for it.
RootSpans(r) == {s \in SpanIds : spans[s].req = r /\ spans[s].kind = "SERVER"}

\* C1: a request that is not excluded, and in whose hooks and database
\* wrappers no collaborator call raises, has exactly one root span, opened
\* by process_request; the span is open (closed 0 times) until
\* process_response runs and closed exactly once when process_response has
\* returned, whether or not process_exception ran; no span is ever closed twice.
C1_RootSpanClosedExactlyOnce ==
    /\ \A c \in env.ctxs :
         (cur[c].req # None /\ ~Excluded(cur[c].req) /\ cur[c].clean) =>
             /\ RootSpans(cur[c].req) = {cur[c].root}
             /\ spans[cur[c].root].closes = 0
    /\ (last.op = "process_response" /\ ~last.excluded /\ last.clean) =>
             /\ RootSpans(last.req) = {last.root}
             /\ spans[last.root].closes = 1
    /\ \A s \in SpanIds : spans[s].closes <= 1

\* process_response has returned for a request that ran process_exception and
\* a traced database call.
C1_Witness ==
    /\ last.op = "process_response" /\ ~last.excluded /\ last.clean
    /\ "error.name" \in spans[last.root].attrs
    /\ \E s \in SpanIds : spans[s].parent = last.root /\ spans[s].closes = 1
    /\ spans[last.root].closes = 1

\* C2: what a hook running in an execution context reads from the context
\* store (request handle, span, tracer) was written in the same execution
\* context, never in another one; and when no collaborator call raised
\* during the request, it is the handle and the root span of the request's
\* own process_request.
C2_ContextIsolation ==
    last.op \in HookOps =>
        /\ last.rreq # None => reqs[last.rreq].ctx = last.ctx
        /\ last.rspan # None => spans[last.rspan].ctx = last.ctx
        /\ last.rtracer # None => tracers[last.rtracer].ctx = last.ctx
        /\ last.clean => last.rreq \in {None, last.req} /\ last.rspan \in {None, last.root}

\* A hook of one request read its span while another context serves a request
\* that stored its own span later.
C2_Witness ==
    /\ last.op \in {"process_exception", "process_response"}
    /\ last.rspan # None
    /\ \E c \in env.ctxs : c # last.ctx /\ cur[c].root > last.rspan
                           /\ _get_django_span(World, c) = cur[c].root

\* C3: a hook called for a request whose path is excluded changes nothing of
\* the tracing state: no span is started, renamed, annotated or ended, no
\* Tracer is constructed or finished, the context store keeps its entries;
\* the hook returns normally, process_response with the response it was given.
C3_ExcludedHooksAreNoOps ==
    [][(last'.op \in HookOps /\ last'.excluded) =>
           /\ store' = store
           /\ spans' = spans
           /\ tracers' = tracers
           /\ last'.raised = "none"
           /\ last'.result = last'.given]_vars

\* process_response ran for an excluded request in a context whose store still
\* holds the span and the tracer of an earlier request.
C3_Witness ==
    /\ last.op = "process_response" /\ last.excluded
    /\ _get_django_span(World, last.ctx) # None
    /\ _get_current_tracer(World, last.ctx) # None

\* C4: a database call issued while an excluded request is served starts no
\* span and ends no span.
C4_InterceptorNoOpWhenExcluded ==
    (last.op \in DbOps /\ last.excluded) =>
        ~last.traced /\ last.span = None /\ last.closed = None

\* C5: process_response returns the response it was given and lets no
\* exception escape, also when a tracing step inside it raises.
C5_ResponseAlwaysReturned ==
    last.op = "process_response" => last.result = last.given /\ last.raised = "none"

\* process_response returned although its try block raised.
C5_Witness ==
    last.op = "process_response" /\ ~last.excluded /\ last.caught

\* C6: a traced invocation of the wrapper whose execute returned or raised of
\* its own, and whose end_span does not raise, has ended the span it started
\* exactly once and hands the caller the outcome of execute unchanged; the
\* status of the span is the error code exactly when execute raised.
C6_DbSpanClosedOnBothPaths ==
    (/\ last.op = "_trace_db_call" /\ last.traced /\ last.execs = 1
     /\ ~last.faulted /\ last.given # TracerError) =>
        /\ spans[last.span].closes = 1
        /\ last.closed = last.span
        /\ last.result = last.given
        /\ spans[last.span].status = IF last.given.kind = "raise" THEN "UNKNOWN" ELSE "unset"

\* A traced invocation whose execute raised.
C6_Witness ==
    /\ last.op = "_trace_db_call" /\ last.traced /\ last.execs = 1
    /\ last.given.kind = "raise" /\ last.given # TracerError
    /\ last.raised = "DatabaseError"
    /\ spans[last.span].closes = 1

\* C7: with no tracer in the execution context the wrapper calls execute once
\* with the arguments it was given, hands back the outcome of execute
\* unchanged, and leaves spans, tracers and the context store as they are.
C7_UntracedCallIsTransparent ==
    [][(last'.op \in DbOps /\ ~last'.traced) =>
           /\ store' = store
           /\ spans' = spans
           /\ tracers' = tracers
           /\ last'.span = None /\ last'.closed = None
           /\ last'.execs = 1
           /\ last'.passed = last'.args
           /\ last'.op = "_trace_db_call" => last'.result = last'.given]_vars

\* An untraced invocation whose execute raised.
C7_Witness ==
    /\ last.op = "_trace_db_call" /\ ~last.traced
    /\ last.given.kind = "raise" /\ last.result = last.given

\* C8: no hook lets an exception of a tracing step reach the framework: each
\* hook returns normally, process_response with the response it was given.
C8_HooksSwallowTracingFailures ==
    last.op \in HookOps =>
        /\ last.raised = "none"
        /\ last.op = "process_response" => last.result = last.given

\* process_view returned normally although its try block raised.
C8_Witness ==
    last.op = "process_view" /\ ~last.excluded /\ last.caught

\* C9: a traced invocation of the wrapper calls execute exactly once and
\* hands the caller the outcome of execute unchanged, also when a tracer
\* call of the wrapper raises.
C9_InterceptorFailureIsHarmless ==
    (last.op = "_trace_db_call" /\ last.traced) =>
        last.execs = 1 /\ last.result = last.given

\* C10: for a request that is not excluded and in whose hooks no collaborator
\* call raises, the name of the root span is the default name until
\* process_view runs and the identifier of the view function from then on.
C10_SpanNamedAfterRouteResolution ==
    /\ \A c \in env.ctxs :
         (cur[c].req # None /\ ~Excluded(cur[c].req) /\ cur[c].clean) =>
             /\ cur[c].root # None
             /\ spans[cur[c].root].name =
                   IF cur[c].handler = <<>> THEN <<"span">> ELSE cur[c].handler
    /\ (last.op \in HookOps /\ ~last.excluded /\ last.clean /\ last.handler # <<>>) =>
             spans[last.root].name = last.handler

\* process_view has just renamed the root span.
C10_Witness ==
    /\ last.op = "process_view" /\ ~last.excluded /\ last.clean
    /\ spans[last.root].name = <<"orders.views", "OrdersView">>

\* C11: no hook called for a request whose host matches a hostname-exclusion
\* pattern starts, renames, annotates or ends a span or constructs or
\* finishes a Tracer.
C11_ExcludedHostNeverInstrumented ==
    [][(last'.op \in HookOps /\ reqs'[last'.req].host \in excludelist_hostnames) =>
           spans' = spans /\ tracers' = tracers]_vars

\* The user attributes on the root span of the request of the last hook.
UserAttributes == spans[last.root].attrs \cap {"django.user.id", "django.user.name"}

\* process_response or process_exception has run for a request that is not
\* excluded and in whose hooks no collaborator call raised.
UserAttributesSet ==
    last.op \in {"process_response", "process_exception"} /\ ~last.excluded /\ last.clean

\* C20 (as stated): the user attributes are attached only when the request
\* has a user whose primary key and user name are both non-null; when either
\* is null, neither attribute is attached.
C20_UserAttributesOnlyIfBoth ==
    UserAttributesSet =>
        LET u == reqs[last.req].user
        IN  UserAttributes =
               IF u.present /\ u.pk # None /\ u.name # "None"
               THEN {"django.user.id", "django.user.name"} ELSE {}

\* C20 (amended): when the request has a user, process_response and
\* process_exception attach the user id exactly when the primary key is
\* non-null and the user name exactly when the user name is non-null, each
\* independently of the other; with no user neither is attached.
C20_UserAttributesIndependent ==
    UserAttributesSet =>
        LET u == reqs[last.req].user
        IN  /\ "django.user.id" \in UserAttributes <=> (u.present /\ u.pk # None)
            /\ "django.user.name" \in UserAttributes <=> (u.present /\ u.name # "None")

\* process_exception attached the user name of a user without primary key.
C20_Witness ==
    /\ UserAttributesSet /\ last.op = "process_exception"
    /\ reqs[last.req].user.pk = None
    /\ UserAttributes = {"django.user.name"}

\* C12: when process_response has returned for a request that is not
\* excluded, the context store of its execution context holds neither the
\* handle of that request nor its root span.
C12_ContextDiscardedAtCompletion ==
    (last.op = "process_response" /\ ~last.excluded) =>
        /\ _get_django_request(World, last.ctx) # last.req
        /\ last.root # None => _get_django_span(World, last.ctx) # last.root

\* The Tracers constructed for request r.
RequestTracers(r) == {t \in 1..Len(tracers) : tracers[t].req = r}

\* C13: a request that is not excluded, and in whose hooks and database
\* wrappers no collaborator call raises, has one Tracer; the Tracer is not
\* finished while the request is in flight and has been finished exactly
\* once, by process_response, when process_response has returned, whether
\* or not process_exception ran.
C13_TracerFinishedExactlyOnce ==
    /\ \A c \in env.ctxs :
         (cur[c].req # None /\ ~Excluded(cur[c].req) /\ cur[c].clean) =>
             \A t \in RequestTracers(cur[c].req) : tracers[t].finishes = 0
    /\ (last.op = "process_response" /\ ~last.excluded /\ last.clean) =>
             /\ RequestTracers(last.req) = {last.rtracer}
             /\ tracers[last.rtracer].finishes = 1

\* process_response has finished the Tracer of a request that ran
\* process_exception.
C13_Witness ==
    /\ last.op = "process_response" /\ ~last.excluded /\ last.clean
    /\ ERROR_ATTRIBUTES \subseteq spans[last.root].attrs
    /\ tracers[last.rtracer].finishes = 1

\* C14: when process_request has started the root span and failed before
\* storing it (the stored span is not the root span), and no collaborator
\* call of process_response raises, process_response ends the root span:
\* it is closed exactly once when process_response has returned.
C14_NoLeakOnPartialFailure ==
    (/\ last.op = "process_response" /\ ~last.excluded /\ ~last.faulted
     /\ last.root # None /\ last.rspan # last.root) =>
        spans[last.root].closes = 1

\* C16: no attribute is ever added to a span that has been closed, and no
\* span is closed twice.
C16_AttributesOnlyOnOpenSpans ==
    \A s \in SpanIds : ~spans[s].late /\ spans[s].closes <= 1

\* C18: whenever the context store of an execution context holds a request
\* handle and a span, the span is the root span process_request started
\* for that request.
C18_StoredSpanBelongsToStoredRequest ==
    \A c \in env.ctxs :
        LET rq == _get_django_request(World, c)
            sp == _get_django_span(World, c)
        IN  (rq # None /\ sp # None) => sp \in RootSpans(rq)

\* C15: process_exception for a request that is not excluded, called when
\* the context store holds the root span process_request started for it and
\* with no collaborator call of the hook raising, adds the error name, the
\* error message and the stack trace to that root span, also when the
\* tracer's current span is another span; it starts and ends no span,
\* leaves every other span, the tracers with their stacks of open spans and
\* the context store as they are, and returns no value.
C15_ExceptionAnnotatesStoredRoot ==
    [][(/\ last'.op = "process_exception" /\ ~last'.excluded /\ ~last'.faulted
        /\ last'.root # None
        /\ _get_django_span(World, last'.ctx) = last'.root) =>
           /\ ERROR_ATTRIBUTES \subseteq spans'[last'.root].attrs
           /\ Len(spans') = Len(spans)
           /\ \A s \in SpanIds : /\ spans'[s].closes = spans[s].closes
                                 /\ s # last'.root => spans'[s] = spans[s]
           /\ tracers' = tracers
           /\ store' = store
           /\ last'.raised = "none"
           /\ last'.result = NoValue]_vars

\* process_exception annotated the root span while the tracer's current span
\* was a child span left open by a database wrapper.
C15_Witness ==
    /\ last.op = "process_exception" /\ ~last.excluded /\ ~last.faulted
    /\ last.root # None /\ last.rspan = last.root
    /\ current_span(World, _get_current_tracer(World, last.ctx)) \notin {None, last.root}
    /\ ERROR_ATTRIBUTES \subseteq spans[last.root].attrs
    /\ spans[last.root].closes = 0

\* C17: a traced invocation of the wrapper starts its span as a child of the
\* span that was current when it began and makes it the current span while
\* execute runs; when execute returned or raised of its own and end_span
\* does not raise, the invocation ends the span it started and the tracer's
\* current span is again the span that was current when it began, at every
\* nesting depth.
C17_InterceptorKeepsStackBalanced ==
    /\ (last.op = "db_enter" /\ last.traced) =>
           /\ spans[last.span].parent = last.entry
           /\ current_span(World, last.rtracer) = last.span
    /\ (/\ last.op = "_trace_db_call" /\ last.traced /\ last.execs = 1
        /\ ~last.faulted /\ last.given # TracerError) =>
           /\ spans[last.span].parent = last.entry
           /\ last.closed = last.span
           /\ current_span(World, last.rtracer) = last.entry

\* A nested invocation whose execute raised returned to the invocation that
\* wraps it.
C17_Witness ==
    /\ last.op = "_trace_db_call" /\ last.traced /\ last.execs = 1
    /\ last.given.kind = "raise" /\ last.given # TracerError
    /\ calls[last.ctx] # <<>>
    /\ last.entry = calls[last.ctx][Len(calls[last.ctx])].span
    /\ current_span(World, last.rtracer) = last.entry

\* The requests being served.
InFlight == {cur[c].req : c \in env.ctxs} \ {None}

====
